---- MODULE Spec2Model ----
(***************************************************************************)
(* metaschool: the task registry (GymTaskset, metaschool/gym_taskset.py),  *)
(* the factory interfaces (metaschool/base.py) and the jumping simulation  *)
(* (MSRJumpEnv, metaschool/envs/msr_jumping.py).                           *)
(*                                                                         *)
(* Three specifications share the module:                                  *)
(*   Spec      the registry: sample / make_like / indexed access, with the *)
(*             caller's environment objects on a heap of reusable          *)
(*             identities (CPython's id());                                *)
(*   SpecEnv   one simulation instance: construction, reset, step;         *)
(*   SpecPair  two simulation instances of one configuration, each driven  *)
(*             on its own;                                                 *)
(*   SpecView  one simulation instance that is also looked at:             *)
(*             get_observation and render;                                 *)
(*   SpecList  WrapperFactoryList.wrap;                                    *)
(*   SpecConfig  a TaskConfig read and written by key and by attribute;    *)
(*   SpecIter  the registry iterated over and indexed.                     *)
(***************************************************************************)
EXTENDS Integers, Sequences, FiniteSets, TLC

VARIABLES
    \* ---- GymTaskset ----
    wrapper_factories,  \* self.wrapper_factories: the wrapper factories, in list order
    _all_configs,       \* self._all_configs: the history of configuration tuples
    _env_to_config,     \* self._env_to_config: id(env.unwrapped) -> index in _all_configs
    heap,               \* the environment objects alive in the process, by identity
    last,               \* the last registry call: its argument, result and factory calls
    nSampled,           \* number of sample() calls that returned an environment
    \* ---- MSRJumpEnv ----
    envs,               \* the simulation instances: their attributes
    ret,                \* what the last constructor / reset / step call returned
    episode,            \* bookkeeping of the driver loop since the last reset()
    trace,              \* per instance: the actions and returns since its last reset()
    \* ---- the caller's other objects ----
    task_config,        \* a TaskConfig: its mapping, and the last access made to it
    iterator,           \* iter(taskset): the position of a running iteration
    threads             \* threads inside sample(): the frame of each running call

regVars == <<wrapper_factories, _all_configs, _env_to_config, heap, last, nSampled>>
envVars == <<envs, ret, episode, trace>>
userVars == <<task_config, iterator, threads>>
vars == <<wrapper_factories, _all_configs, _env_to_config, heap, last, nSampled,
          envs, ret, episode, trace, task_config, iterator, threads>>

(***************************************************************************)
(* Bounds of the model.                                                    *)
(***************************************************************************)
NumIds == 2          \* identities the allocator hands out (and reuses)
MaxHistory == 2      \* sample() is not called once the history has this length
MaxWrappers == 2     \* length of the longest wrapper-factory list

Ids == 1..NumIds

Max(a, b) == IF a >= b THEN a ELSE b
Min(a, b) == IF a <= b THEN a ELSE b
Abs(a) == IF a >= 0 THEN a ELSE 0 - a

(***************************************************************************)
(* MSRJumpEnv.__init__: defaults of the keyword arguments and the two      *)
(* assertions that guard construction.                                     *)
(***************************************************************************)
Defaults ==
    [floor_height |-> 10,
     obstacle_position |-> 20,
     obstacle_size |-> <<9, 10>>,
     vision_observations |-> TRUE,
     screen_width |-> 84,
     screen_height |-> 84,
     jumping_height |-> 15,
     agent_speed |-> 1,
     agent_size |-> <<5, 10>>,
     num_envs |-> 1,
     max_episode_steps |-> 600]

\* MSRJumpEnv(**config): the keyword arguments given override the defaults
Kwargs(config) ==
    [k \in DOMAIN Defaults |->
        IF k \in DOMAIN config THEN config[k] ELSE Defaults[k]]

\* (mutant) the solvability assert with a strict comparison
ConstructionOK_Strict(cfg) ==
    /\ cfg.jumping_height + 1 > cfg.agent_size[1] + cfg.obstacle_size[1]
    /\ cfg.num_envs = 1

\* the two asserts of __init__ (tuples are 1-based here: size[1] is the width)
ConstructionOK(cfg) ==
    /\ cfg.jumping_height + 1 >= cfg.agent_size[1] + cfg.obstacle_size[1]
    /\ cfg.num_envs = 1

(***************************************************************************)
(* The factories the registry is composed with.                            *)
(***************************************************************************)
\* what env_factory.sample() may return: a TaskConfig of keyword arguments
EnvFactorySample ==
    [floor_height : {10}, obstacle_position : {20, 25}, jumping_height : {15}]
        \cup [floor_height : {10}, obstacle_position : {20}, jumping_height : {5}]

\* what wrapper factory f's sample(env) may return: a configuration of its own
\* (each factory has one parameter setting; the env factory draws the task)
WrapperFactorySample(f) == {<<"wrapper_config", f>>}

\* env_factory.make(config): the configuration the base environment is built with
EnvFactoryMake(config) == Kwargs(config)

\* (mutant) every environment is built around one shared base object
NewEnv_SharedBase(id, config) == [unwrapped |-> 1, config |-> config, wrappers |-> <<>>]

\* an environment under construction: its base object and the wrappers around it
NewEnv(id, config) == [unwrapped |-> id, config |-> config, wrappers |-> <<>>]

\* wrapper_factory.wrap(env, config): one more layer around env
Wrap(f, env, config) ==
    [env EXCEPT !.wrappers = Append(@, [factory |-> f, config |-> config])]

NoCall == <<>>
CallSample(f) == [factory |-> f, method |-> "sample"]
CallSampleEnv(f, env) == [factory |-> f, method |-> "sample", env |-> env]
CallMake(config) == [factory |-> "env_factory", method |-> "make", config |-> config]
CallWrap(f, env, config) == [factory |-> f, method |-> "wrap", env |-> env, config |-> config]

None == "None"
Free == [origin |-> "free"]
FreeIds == {i \in Ids : heap[i].origin = "free"}

\* an object of the heap: how it came to be, and the tuple it was built from
Obj(origin, env, configs) == [origin |-> origin, env |-> env, configs |-> configs]

(***************************************************************************)
(* GymTaskset                                                              *)
(***************************************************************************)
\* the wrapper_factories argument of GymTaskset.__init__
TasksetArgs ==
    {[kind |-> "none", value |-> <<>>]}
        \cup {[kind |-> "single", value |-> <<1>>]}
        \cup {[kind |-> "list", value |-> [i \in 1..k |-> i]] : k \in {0, MaxWrappers}}

\* GymTaskset.__init__: None becomes the empty list, one factory a list of one
TasksetInit(arg) ==
    IF arg.kind = "none" THEN <<>>
    ELSE IF arg.kind = "single" THEN <<arg.value[1]>>
    ELSE arg.value

\* dict item assignment d[key] = value
DictPut(d, key, value) ==
    [k \in DOMAIN d \cup {key} |-> IF k = key THEN value ELSE d[k]]

\* the record of a registry call
Call(op, arg, result, env, calls, configs) ==
    [op |-> op, arg |-> arg, result |-> result, env |-> env,
     calls |-> calls, configs |-> configs]

\* the loop of sample() over the wrapper factories, from factory i on;
\* st holds the loop's env, its configs list and the factory calls made
RECURSIVE SampleWrappers(_, _, _)
SampleWrappers(choice, i, st) ==
    IF i > Len(wrapper_factories) THEN st
    ELSE LET wrapper_factory == wrapper_factories[i]
             factory_config == choice[i]
             env == Wrap(wrapper_factory, st.env, factory_config)
         IN SampleWrappers(choice, i + 1,
                [env |-> env,
                 configs |-> Append(st.configs, factory_config),
                 calls |-> st.calls \o
                     <<CallSampleEnv(wrapper_factory, st.env),
                       CallWrap(wrapper_factory, st.env, factory_config)>>])

\* (mutant) the configs list starts empty: env_config is not recorded
SampleConfigs_NoEnvConfig(env_config) == <<>>

\* configs = []; ...; configs.append(env_config): the list the wrapper loop
\* of sample() starts with
SampleConfigs(env_config) == <<env_config>>

\* (mutant) the identity is filed after the append, under the new length
SampleIndex_AfterAppend == Len(_all_configs) + 1

\* the index sample() files the new environment under
SampleIndex == Len(_all_configs)

\* (mutant) the newest tuple is put in front of the history
Record_Prepend(configs) == <<configs>> \o _all_configs

\* self._all_configs.append(configs)
Record(configs) == Append(_all_configs, configs)

\* GymTaskset.sample(): env_config and choice are what the factories' sample()
\* calls return, id the identity the allocator gives the new base environment
Sample(env_config, choice, id) ==
    /\ Len(_all_configs) < MaxHistory
    /\ id \in FreeIds
    /\ IF ~ConstructionOK(EnvFactoryMake(env_config))
       THEN \* make() raises: the call ends before any bookkeeping
            /\ last' = Call("sample", None, "AssertionError", None,
                            <<CallSample("env_factory"), CallMake(env_config)>>, None)
            /\ UNCHANGED <<_all_configs, _env_to_config, heap, nSampled>>
       ELSE LET st == SampleWrappers(choice, 1,
                         [env |-> NewEnv(id, env_config),
                          configs |-> SampleConfigs(env_config),
                          calls |-> <<CallSample("env_factory"), CallMake(env_config)>>])
            IN /\ _env_to_config' = DictPut(_env_to_config, st.env.unwrapped, SampleIndex)
               /\ _all_configs' = Record(st.configs)
               /\ heap' = [heap EXCEPT ![id] = Obj("sample", st.env, st.configs)]
               /\ nSampled' = nSampled + 1
               /\ last' = Call("sample", None, "env", st.env, st.calls, st.configs)
    /\ UNCHANGED <<wrapper_factories, envVars, userVars>>

\* list indexing with Python's rules: 0-based, negative indices count from the end
ListIndexOK(list, index) == 0 - Len(list) <= index /\ index < Len(list)
\* (mutant) non-negative indices count from the end of the list
ListGet_FromEnd(list, index) ==
    IF index >= 0 THEN list[Len(list) - index] ELSE list[Len(list) + index + 1]

\* list[index], for an index in range
ListGet(list, index) ==
    IF index >= 0 THEN list[index + 1] ELSE list[Len(list) + index + 1]

\* (mutant) the replay walks the wrapper factories from the last to the first
RECURSIVE GetItemWrappers_Reversed(_, _, _)
GetItemWrappers_Reversed(config, i, st) ==
    IF i > Min(Len(config) - 1, Len(wrapper_factories)) THEN st
    ELSE LET wrapper == wrapper_factories[Len(wrapper_factories) - i + 1]
             wrapper_config == config[i + 1]
         IN GetItemWrappers_Reversed(config, i + 1,
                [env |-> Wrap(wrapper, st.env, wrapper_config),
                 calls |-> Append(st.calls, CallWrap(wrapper, st.env, wrapper_config))])

\* the loop of __getitem__ over zip(config[1:], self.wrapper_factories)
RECURSIVE GetItemWrappers(_, _, _)
GetItemWrappers(config, i, st) ==
    IF i > Min(Len(config) - 1, Len(wrapper_factories)) THEN st
    ELSE LET wrapper == wrapper_factories[i]
             wrapper_config == config[i + 1]
         IN GetItemWrappers(config, i + 1,
                [env |-> Wrap(wrapper, st.env, wrapper_config),
                 calls |-> Append(st.calls, CallWrap(wrapper, st.env, wrapper_config))])

\* GymTaskset.__getitem__(index), called as op with argument arg
GetItem(op, arg, index, id) ==
    IF ~ListIndexOK(_all_configs, index)
    THEN /\ last' = Call(op, arg, "IndexError", None, NoCall, None)
         /\ UNCHANGED heap
    ELSE LET config == ListGet(_all_configs, index)
         IN /\ id \in FreeIds
            /\ IF ~ConstructionOK(EnvFactoryMake(config[1]))
               THEN /\ last' = Call(op, arg, "AssertionError", None,
                                    <<CallMake(config[1])>>, None)
                    /\ UNCHANGED heap
               ELSE LET st == GetItemWrappers(config, 1,
                                 [env |-> NewEnv(id, config[1]),
                                  calls |-> <<CallMake(config[1])>>])
                    IN /\ heap' = [heap EXCEPT ![id] = Obj("rebuilt", st.env, None)]
                       /\ last' = Call(op, arg, "env", st.env, st.calls, config)

\* the indices the caller passes: the valid ones, the first one past the end,
\* and -1 (the last entry, or an error on an empty history)
IndexArgs == (0 - 1)..Len(_all_configs)

\* taskset[index]
Index(index, id) ==
    /\ GetItem("getitem", index, index, id)
    /\ UNCHANGED <<wrapper_factories, _all_configs, _env_to_config, nSampled, envVars, userVars>>

\* GymTaskset.make_like(env), env an environment the caller holds
MakeLike(e, id) ==
    /\ e \notin FreeIds
    /\ LET env_id == heap[e].env.unwrapped
       IN IF env_id \notin DOMAIN _env_to_config
          THEN /\ last' = Call("make_like", e, "ValueError", None, NoCall, None)
               /\ UNCHANGED heap
          ELSE GetItem("make_like", e, _env_to_config[env_id], id)
    /\ UNCHANGED <<wrapper_factories, _all_configs, _env_to_config, nSampled, envVars, userVars>>

\* the caller builds an environment of its own, outside the registry
Foreign(id) ==
    /\ id \in FreeIds
    /\ heap' = [heap EXCEPT ![id] = Obj("foreign", NewEnv(id, [k \in {} |-> 0]), None)]
    /\ last' = Call("foreign", None, None, None, NoCall, None)
    /\ UNCHANGED <<wrapper_factories, _all_configs, _env_to_config, nSampled, envVars, userVars>>

\* the caller drops an environment; the collector frees its identity for reuse
Discard(e) ==
    /\ e \notin FreeIds
    /\ heap' = [heap EXCEPT ![e] = Free]
    /\ last' = Call("discard", None, None, None, NoCall, None)
    /\ UNCHANGED <<wrapper_factories, _all_configs, _env_to_config, nSampled, envVars, userVars>>

\* no TaskConfig of the caller's own and no iteration under way
NoTaskConfig == [items |-> [k \in {} |-> 0], assigned |-> [k \in {} |-> 0],
                 op |-> "none", name |-> None, result |-> None]
NoIterator == [state |-> "none", index |-> 0, calls |-> 0, len |-> 0]
\* the threads that call sample(), and a thread that is not inside a call
Threads == {1, 2}
NoFrame == [pc |-> "idle"]
NoThreads == [frame |-> [t \in Threads |-> NoFrame], raced |-> {}]
UserIdle ==
    /\ task_config = NoTaskConfig
    /\ iterator = NoIterator
    /\ threads = NoThreads

EnvIdle ==
    /\ envs = [i \in {1, 2} |-> [alive |-> FALSE]]
    /\ ret = [call |-> "none"]
    /\ episode = [over |-> FALSE]
    /\ trace = <<>>

\* what the wrapper factories' sample() calls of one sample() may return
WrapperChoices ==
    {choice \in [1..Len(wrapper_factories) ->
                    UNION {WrapperFactorySample(f) : f \in 1..MaxWrappers}] :
        \A i \in 1..Len(wrapper_factories) :
            choice[i] \in WrapperFactorySample(wrapper_factories[i])}

Init ==
    /\ \E arg \in TasksetArgs :
         /\ wrapper_factories = TasksetInit(arg)
         /\ last = Call("init", arg, None, None, NoCall, None)
    /\ _all_configs = <<>>
    /\ _env_to_config = [k \in {} |-> 0]
    /\ heap = [i \in Ids |-> Free]
    /\ nSampled = 0
    /\ EnvIdle
    /\ UserIdle

Next ==
    \/ \E env_config \in EnvFactorySample, id \in Ids :
         \E choice \in WrapperChoices :
            Sample(env_config, choice, id)
    \/ \E e \in Ids, id \in Ids : MakeLike(e, id)
    \/ \E index \in IndexArgs, id \in Ids : Index(index, id)
    \/ \E id \in Ids : Foreign(id)
    \/ \E e \in Ids : Discard(e)

Spec == Init /\ [][Next]_vars

(***************************************************************************)
(* MSRJumpEnv                                                              *)
(***************************************************************************)
\* class DefaultColors, in units of 0.5
DefaultColors == [white |-> 2, gray |-> 1, black |-> 0]

\* the indices a slice a:b selects on an axis of n entries (a, b >= 0)
Slice(a, b, n) == {i \in 0..(n - 1) : a <= i /\ i < b}

\* an integer index i on an axis of n entries: valid, and the entry it names
IndexValid(i, n) == 0 - n <= i /\ i < n
IndexAt(i, n) == {IF i >= 0 THEN i ELSE n + i}

\* frame[rows, cols].fill_(color)
Fill(frame, rows, cols, color) ==
    [p \in DOMAIN frame |->
        IF p[1] \in rows /\ p[2] \in cols THEN color ELSE frame[p]]

\* whether the integer indices _get_base_observation uses are on the frame
BaseObservationOK(cfg, vision) ==
    vision =>
        /\ cfg.screen_height >= 0
        /\ cfg.screen_width >= 0
        /\ IndexValid(0, cfg.screen_width)
        /\ IndexValid(cfg.screen_width - 1, cfg.screen_width)
        /\ IndexValid(0, cfg.screen_height)
        /\ IndexValid(cfg.screen_height - 1, cfg.screen_height)
        /\ IndexValid(cfg.floor_height, cfg.screen_width)

\* MSRJumpEnv._get_base_observation(vision): the frame has screen_height rows
\* and screen_width columns and is indexed [x, y]
BaseObservation(self, vision) ==
    LET c == self.cfg
        H == c.screen_height
        W == c.screen_width
    IN IF vision
       THEN LET background == [p \in (0..(H - 1)) \X (0..(W - 1)) |-> DefaultColors.black]
                obstacle == Fill(background,
                                 Slice(c.obstacle_position,
                                       c.obstacle_position + c.obstacle_size[1], H),
                                 Slice(c.floor_height,
                                       c.floor_height + c.obstacle_size[2], W),
                                 DefaultColors.gray)
                left == Fill(obstacle, Slice(0, H, H), IndexAt(0, W), DefaultColors.white)
                right == Fill(left, Slice(0, H, H), IndexAt(W - 1, W), DefaultColors.white)
                top == Fill(right, IndexAt(0, H), Slice(0, W, W), DefaultColors.white)
                bottom == Fill(top, IndexAt(H - 1, H), Slice(0, W, W), DefaultColors.white)
            IN Fill(bottom, Slice(0, W, H), IndexAt(c.floor_height, W), DefaultColors.white)
       ELSE [num |-> <<self.agent_position[1], self.agent_position[2],
                       c.agent_size[1], c.agent_size[2], c.agent_speed,
                       c.jumping_height, c.floor_height, c.obstacle_position,
                       c.obstacle_size[1], c.obstacle_size[2]>>,
             den |-> self.max_screen_size]

\* obs.t().unsqueeze(0)
Transposed(obs, H, W) ==
    [shape |-> <<1, W, H>>,
     pixels |-> [p \in (0..(W - 1)) \X (0..(H - 1)) |-> obs[<<p[2], p[1]>>]]]

\* get_observation(vision) up to its return: the tensor obs with the agent
\* written into it (the agent's box in raster mode, entries 0 and 1 otherwise)
Painted(self, vision) ==
    LET c == self.cfg
        obs == IF c.vision_observations = vision
               THEN self._base_observation
               ELSE BaseObservation(self, vision)
    IN IF vision
       THEN Fill(obs,
                 Slice(self.agent_position[1],
                       self.agent_position[1] + c.agent_size[1], c.screen_height),
                 Slice(self.agent_position[2],
                       self.agent_position[2] + c.agent_size[2], c.screen_width),
                 DefaultColors.white)
       ELSE [obs EXCEPT !.num[1] = self.agent_position[1],
                        !.num[2] = self.agent_position[2]]

\* (mutant) the agent is not written into the feature vector
Observation_StaleAgent(self, vision) ==
    LET c == self.cfg
    IN IF vision
       THEN Transposed(Painted(self, vision), c.screen_height, c.screen_width)
       ELSE IF c.vision_observations = vision
            THEN self._base_observation
            ELSE BaseObservation(self, vision)

\* MSRJumpEnv.get_observation(vision), vision already resolved against the mode
Observation(self, vision) ==
    IF vision
    THEN Transposed(Painted(self, vision), self.cfg.screen_height, self.cfg.screen_width)
    ELSE Painted(self, vision)

\* (mutant) get_observation writes the agent into the cached tensor itself
CacheAfterObservation_Aliased(self, vision) ==
    IF self.cfg.vision_observations = vision
    THEN Painted(self, vision)
    ELSE self._base_observation

\* self._base_observation after get_observation(vision): obs is a clone of the
\* cache or a newly computed tensor, so the cache keeps its value
CacheAfterObservation(self, vision) == self._base_observation

\* the instance as a get_observation(vision) call leaves it
Observed(self, vision) ==
    [self EXCEPT !._base_observation = CacheAfterObservation(self, vision)]

\* get_observation() with vision=None: the instance's own mode
GetObservation(self) == Observation(self, self.cfg.vision_observations)

\* (mutant) reset() leaves the step counter alone
ResetState_KeepSteps(self) ==
    LET moved == [self EXCEPT !.agent_position = <<0, self.cfg.floor_height>>,
                              !.jumping = <<FALSE, 0>>,
                              !.done = FALSE]
        cached == [moved EXCEPT !._base_observation =
                      BaseObservation(moved, moved.cfg.vision_observations)]
    IN Observed(cached, cached.cfg.vision_observations)

\* (mutant) reset() leaves the airborne flag and direction alone
ResetState_KeepJump(self) ==
    LET moved == [self EXCEPT !.agent_position = <<0, self.cfg.floor_height>>,
                              !.done = FALSE,
                              !._steps = 0]
        cached == [moved EXCEPT !._base_observation =
                      BaseObservation(moved, moved.cfg.vision_observations)]
    IN Observed(cached, cached.cfg.vision_observations)

\* MSRJumpEnv.reset(): the attributes it leaves
ResetState(self) ==
    LET moved == [self EXCEPT !.agent_position = <<0, self.cfg.floor_height>>,
                              !.jumping = <<FALSE, 0>>,
                              !.done = FALSE,
                              !._steps = 0]
        cached == [moved EXCEPT !._base_observation =
                      BaseObservation(moved, moved.cfg.vision_observations)]
    IN Observed(cached, cached.cfg.vision_observations)

\* MSRJumpEnv.__init__ up to the call of reset(): the attributes set
Attributes(cfg) ==
    [alive |-> TRUE,
     cfg |-> cfg,
     max_screen_size |-> Max(cfg.screen_height, cfg.screen_width),
     reward_range |-> <<0 - 1, cfg.screen_width + 2 - cfg.agent_size[1]>>,
     observation_space |->
        IF cfg.vision_observations
        THEN <<cfg.num_envs, cfg.screen_height, cfg.screen_width>>
        ELSE <<cfg.num_envs, 10>>,
     _max_episode_steps |-> cfg.max_episode_steps,
     agent_position |-> <<0, 0>>,
     jumping |-> <<FALSE, 0>>,
     done |-> FALSE,
     _steps |-> 0,
     _base_observation |-> <<>>]

NoEnv == [alive |-> FALSE]
Instances == {1, 2}

\* MSRJumpEnv.__init__: what the constructor call ends with
ConstructResult(cfg) ==
    IF ~ConstructionOK(cfg) THEN "AssertionError"
    ELSE IF ~BaseObservationOK(cfg, cfg.vision_observations) THEN "IndexError"
    ELSE "instance"

\* (mutant) the jump turns around on reaching the jumping height, not past it
StepDynamics_TurnAtHeight(self, action) ==
    LET c == self.cfg
        jump == IF ~self.jumping[1] /\ action = 1 THEN <<TRUE, 1>> ELSE self.jumping
        x == self.agent_position[1] + c.agent_speed
        y == self.agent_position[2]
    IN IF jump[1]
       THEN LET dir == IF y >= c.floor_height + c.jumping_height THEN 0 - 1 ELSE jump[2]
                y2 == y + dir * c.agent_speed
            IN [self EXCEPT !.agent_position = <<x, y2>>,
                            !.jumping = IF y2 = c.floor_height
                                        THEN <<FALSE, 0>> ELSE <<TRUE, dir>>]
       ELSE [self EXCEPT !.agent_position = <<x, y>>, !.jumping = jump]

\* MSRJumpEnv._step_dynamics(action)
StepDynamics(self, action) ==
    LET c == self.cfg
        jump == IF ~self.jumping[1] /\ action = 1 THEN <<TRUE, 1>> ELSE self.jumping
        x == self.agent_position[1] + c.agent_speed
        y == self.agent_position[2]
    IN IF jump[1]
       THEN LET dir == IF y > c.floor_height + c.jumping_height THEN 0 - 1 ELSE jump[2]
                y2 == y + dir * c.agent_speed
            IN [self EXCEPT !.agent_position = <<x, y2>>,
                            !.jumping = IF y2 = c.floor_height
                                        THEN <<FALSE, 0>> ELSE <<TRUE, dir>>]
       ELSE [self EXCEPT !.agent_position = <<x, y>>, !.jumping = jump]

\* the timeout test of step(), on the counter before its increment
Timelimit(self) == self._steps > self._max_episode_steps

\* (mutant) boxes that touch on an edge count as overlapping
Collision_Touching(self) ==
    LET c == self.cfg
    IN /\ c.obstacle_position + c.obstacle_size[1] >= self.agent_position[1]
       /\ c.obstacle_position <= self.agent_position[1] + c.agent_size[1]
       /\ c.floor_height + c.obstacle_size[2] >= self.agent_position[2]
       /\ c.floor_height <= self.agent_position[2] + c.agent_size[2]

\* the box test of step(): strict overlap on both axes
Collision(self) ==
    LET c == self.cfg
    IN /\ c.obstacle_position + c.obstacle_size[1] > self.agent_position[1]
       /\ c.obstacle_position < self.agent_position[1] + c.agent_size[1]
       /\ c.floor_height + c.obstacle_size[2] > self.agent_position[2]
       /\ c.floor_height < self.agent_position[2] + c.agent_size[2]

\* the exit test of step()
Exited(self) == self.cfg.screen_width < self.agent_position[1] + self.cfg.agent_size[1]

\* (mutant) the exit bonus is tested before the collision penalty
Reward_ExitFirst(self, collision, exited) ==
    IF exited THEN self.cfg.agent_speed + 1
    ELSE IF collision THEN 0 - 1
    ELSE self.cfg.agent_speed

\* the reward of a step, from its collision and exit flags
Reward(self, collision, exited) ==
    IF collision THEN 0 - 1
    ELSE IF exited THEN self.cfg.agent_speed + 1
    ELSE self.cfg.agent_speed

\* the record of a call on an instance and of what it returned
Return(call, arg, result, observation, reward, done) ==
    [call |-> call, arg |-> arg, result |-> result,
     observation |-> observation, reward |-> reward, done |-> done]

\* MSRJumpEnv.step(action): the instance it leaves and the tuple it returns
Step(self, action) ==
    LET moved == StepDynamics(self, action)
        timelimit == Timelimit(moved)
        collision == Collision(moved)
        exited == Exited(moved)
        done == timelimit \/ collision \/ exited
        reward == Reward(moved, collision, exited)
        observation == GetObservation(moved)
        observed == Observed(moved, moved.cfg.vision_observations)
    IN [self |-> [observed EXCEPT !._steps = @ + 1],
        return |-> Return("step", action, None, observation, reward, done)]

\* (mutant) the jump margin leaves out the agent's width
GetOptimalAction_NoAgentWidth(self) ==
    LET dist_to_obstacle == Abs(self.cfg.obstacle_position - self.agent_position[1])
        jump_margin == self.cfg.obstacle_size[2]
    IN IF dist_to_obstacle <= jump_margin - 1 THEN 1 ELSE 0

\* MSRJumpEnv.get_optimal_action()
GetOptimalAction(self) ==
    LET dist_to_obstacle == Abs(self.cfg.obstacle_position - self.agent_position[1])
        jump_margin == self.cfg.agent_size[1] + self.cfg.obstacle_size[2]
    IN IF dist_to_obstacle <= jump_margin - 1 THEN 1 ELSE 0

(***************************************************************************)
(* One instance, driven by a caller: construction, reset(), step(action).  *)
(***************************************************************************)
MaxObstaclePosition == 5   \* obstacle_position ranges over 2..MaxObstaclePosition
MaxJumpingHeight == 4      \* jumping_height ranges over 0..MaxJumpingHeight
OverRun == 2               \* step() is not called once x >= screen_width + OverRun

\* the end-to-end scenario of the module's __main__ block (spec.md section 8),
\* observed in feature mode
ScenarioConfig ==
    Kwargs([floor_height |-> 10, obstacle_position |-> 25, obstacle_size |-> <<9, 10>>,
            agent_size |-> <<5, 10>>, agent_speed |-> 2, jumping_height |-> 15,
            screen_width |-> 64, screen_height |-> 64, max_episode_steps |-> 600,
            vision_observations |-> FALSE])

\* agent and obstacle five wide, on a short feature-mode screen
WidthFive(jumping_height) ==
    Kwargs([jumping_height |-> jumping_height, agent_size |-> <<5, 10>>,
            obstacle_size |-> <<5, 10>>, screen_width |-> 20, screen_height |-> 20,
            vision_observations |-> FALSE])

\* raster-mode configurations on a small screen; the second one has its floor
\* line beyond the frame
RasterConfigs ==
    {Kwargs([floor_height |-> f, obstacle_position |-> 2, obstacle_size |-> <<1, 1>>,
             agent_size |-> <<1, 1>>, agent_speed |-> 1, jumping_height |-> 1,
             screen_width |-> w, screen_height |-> h, max_episode_steps |-> 600,
             vision_observations |-> TRUE]) :
        f \in {1, 4}, w \in {4}, h \in {4}}

\* an obstacle that reaches the right edge of the screen: passing it and
\* leaving the screen overlap
EdgeConfig ==
    Kwargs([floor_height |-> 1, obstacle_position |-> 7, obstacle_size |-> <<2, 1>>,
            agent_size |-> <<2, 1>>, agent_speed |-> 1, jumping_height |-> 3,
            screen_width |-> 8, screen_height |-> 8, max_episode_steps |-> 600,
            vision_observations |-> FALSE])

\* feature-mode configurations on a small grid of geometries, the obstacle
\* ahead of the agent's starting box
GridConfigs ==
    [floor_height : {1},
     obstacle_position : 2..MaxObstaclePosition,
     obstacle_size : {1, 2} \X {1, 2},
     vision_observations : {FALSE},
     screen_width : {8},
     screen_height : {8},
     jumping_height : 0..MaxJumpingHeight,
     agent_speed : {1, 2},
     agent_size : {1, 2} \X {1},
     num_envs : {1, 2},
     max_episode_steps : {2, 600}]

\* the constructor arguments a caller passes
EnvConfigs ==
    GridConfigs \cup RasterConfigs
        \cup {ScenarioConfig, EdgeConfig, WidthFive(5), WidthFive(9)}

\* the driver's bookkeeping at reset()
NewEpisode ==
    [optimal |-> TRUE, over |-> FALSE, steps |-> 0, total |-> 0, collided |-> FALSE,
     air |-> 0]

\* the driver loop "r, d = step(a); total += r; if d: break", continued past the break
Drive(ep, self, action, return) ==
    IF ep.over THEN ep
    ELSE [optimal |-> ep.optimal /\ action = GetOptimalAction(self),
          over |-> return.done,
          steps |-> ep.steps + 1,
          total |-> ep.total + return.reward,
          collided |-> ep.collided \/ return.reward = 0 - 1,
          air |-> ep.air]

\* the steps the agent has been airborne for, read off the airborne flag
\* (self.jumping[0]) before and after a step: 1 on the step that leaves the
\* floor, one more on each step begun airborne, 0 on the floor
AirborneSteps(n, before, after) ==
    IF before.jumping[1] THEN n + 1
    ELSE IF after.jumping[1] THEN 1
    ELSE 0

\* MSRJumpEnv(**cfg): the caller's one constructor call
Construct(cfg) ==
    /\ ret.call = "none"
    /\ LET result == ConstructResult(cfg)
           self == ResetState(Attributes(cfg))
       IN IF result = "instance"
          THEN /\ envs' = [envs EXCEPT ![1] = self]
               /\ ret' = Return("init", cfg, result, GetObservation(self), None, None)
          ELSE /\ envs' = envs
               /\ ret' = Return("init", cfg, result, None, None, None)
    /\ episode' = NewEpisode
    /\ UNCHANGED <<trace, regVars, userVars>>

\* env.reset()
EnvReset ==
    /\ envs[1].alive
    /\ LET self == ResetState(envs[1])
       IN /\ envs' = [envs EXCEPT ![1] = self]
          /\ ret' = Return("reset", None, None, GetObservation(self), None, None)
    /\ episode' = NewEpisode
    /\ UNCHANGED <<trace, regVars, userVars>>

\* env.step(action)
EnvStep(action) ==
    /\ envs[1].alive
    /\ envs[1].agent_position[1] < envs[1].cfg.screen_width + OverRun
    /\ LET r == Step(envs[1], action)
       IN /\ envs' = [envs EXCEPT ![1] = r.self]
          /\ ret' = r.return
          /\ episode' = [Drive(episode, envs[1], action, r.return) EXCEPT
                            !.air = AirborneSteps(episode.air, envs[1], r.self)]
    /\ UNCHANGED <<trace, regVars, userVars>>

RegIdle ==
    /\ wrapper_factories = <<>>
    /\ _all_configs = <<>>
    /\ _env_to_config = [k \in {} |-> 0]
    /\ heap = [i \in Ids |-> Free]
    /\ last = Call("init", None, None, None, NoCall, None)
    /\ nSampled = 0

InitEnv ==
    /\ envs = [i \in Instances |-> NoEnv]
    /\ ret = Return("none", None, None, None, None, None)
    /\ episode = NewEpisode
    /\ trace = <<>>
    /\ RegIdle
    /\ UserIdle

NextEnv ==
    \/ \E cfg \in EnvConfigs : Construct(cfg)
    \/ EnvReset
    \/ \E action \in {0, 1} : EnvStep(action)

SpecEnv == InitEnv /\ [][NextEnv]_vars

(***************************************************************************)
(* Two instances built from one configuration, each reset and stepped on   *)
(* its own; trace keeps, per instance, the actions since its last reset()  *)
(* and what reset() and each step() returned (ret keeps the constructor    *)
(* call).                                                                  *)
(***************************************************************************)
MaxTrace == 4    \* step() is not called on an instance more than MaxTrace times per episode

\* the configurations of the pair: the raster one, and the grid's geometries
\* with the obstacle at 2, a one-by-one agent and a step limit of 2
PairConfigs ==
    {c \in RasterConfigs : ConstructResult(c) = "instance"}
        \cup {c \in GridConfigs :
                /\ ConstructResult(c) = "instance"
                /\ c.obstacle_position = 2
                /\ c.agent_size = <<1, 1>>
                /\ c.max_episode_steps = 2}

\* what the driver keeps of a reset() call
TraceAtReset(self, used) ==
    [actions |-> <<>>, returns |-> <<GetObservation(self)>>, reused |-> used]

\* what the driver keeps of a step() call
TraceAtStep(t, action, return) ==
    [actions |-> Append(t.actions, action),
     returns |-> Append(t.returns, <<return.observation, return.reward, return.done>>),
     reused |-> t.reused]

\* env_i.reset()
PairReset(i) ==
    /\ LET self == ResetState(envs[i])
       IN /\ envs' = [envs EXCEPT ![i] = self]
          /\ trace' = [trace EXCEPT
                ![i] = TraceAtReset(self, trace[i].reused \/ trace[i].actions # <<>>)]
    /\ UNCHANGED <<ret, episode, regVars, userVars>>

\* env_i.step(action)
PairStep(i, action) ==
    /\ Len(trace[i].actions) < MaxTrace
    /\ LET r == Step(envs[i], action)
       IN /\ envs' = [envs EXCEPT ![i] = r.self]
          /\ trace' = [trace EXCEPT ![i] = TraceAtStep(trace[i], action, r.return)]
    /\ UNCHANGED <<ret, episode, regVars, userVars>>

InitPair ==
    /\ \E cfg \in PairConfigs :
         LET self == ResetState(Attributes(cfg))
         IN /\ envs = [i \in Instances |-> self]
            /\ ret = Return("init", cfg, "instance", GetObservation(self), None, None)
            /\ trace = [i \in Instances |-> TraceAtReset(self, FALSE)]
    /\ episode = NewEpisode
    /\ RegIdle
    /\ UserIdle

NextPair ==
    \/ \E i \in Instances : PairReset(i)
    \/ \E i \in Instances, action \in {0, 1} : PairStep(i, action)

SpecPair == InitPair /\ [][NextPair]_vars

(***************************************************************************)
(* One instance and a caller that also looks at it: reset(), step(action), *)
(* get_observation(vision) and render(mode).                               *)
(***************************************************************************)
\* the instances looked at: raster and feature mode, square and oblong
\* screens, and a feature-mode one whose floor is beyond a raster frame
ViewConfigs ==
    {Kwargs([floor_height |-> 1, obstacle_position |-> 2, obstacle_size |-> <<1, 1>>,
             agent_size |-> <<1, 1>>, agent_speed |-> 1, jumping_height |-> 1,
             screen_width |-> s[1], screen_height |-> s[2], max_episode_steps |-> 600,
             vision_observations |-> v]) :
        s \in {<<4, 4>>, <<5, 3>>, <<3, 5>>}, v \in BOOLEAN}
        \cup {Kwargs([floor_height |-> 4, obstacle_position |-> 2,
                      obstacle_size |-> <<1, 1>>, agent_size |-> <<1, 1>>,
                      agent_speed |-> 1, jumping_height |-> 1,
                      screen_width |-> 4, screen_height |-> 4,
                      max_episode_steps |-> 600, vision_observations |-> FALSE])}

\* the vision argument of get_observation: None, True or False
VisionArgs == {"None", "True", "False"}

\* "if vision is None: vision = self.vision_observations"
Vision(self, arg) ==
    IF arg = "None" THEN self.cfg.vision_observations ELSE arg = "True"

\* the mode argument of render: the three modes the code names and another one
RenderModes == {"human", "text", "rgb_array", "ansi"}

\* whether get_observation(vision) reaches its return: computing a raster
\* frame for an instance that caches none may index outside the frame
ObservationOK(self, vision) ==
    self.cfg.vision_observations # vision => BaseObservationOK(self.cfg, vision)

\* tensor * 255.0, on a raster observation
Times255(obs) ==
    [shape |-> obs.shape, pixels |-> [p \in DOMAIN obs.pixels |-> obs.pixels[p] * 255]]

\* MSRJumpEnv.render(mode): how the call ends and what it returns
Render(self, mode) ==
    IF mode = "text" THEN Return("render", mode, "NotImplementedError", None, None, None)
    ELSE IF mode = "human"
    THEN Return("render", mode, "NotImplementedError", None, None, None)
    ELSE IF mode = "rgb_array"
    THEN IF ObservationOK(self, TRUE)
         THEN Return("render", mode, "returned", Times255(Observation(self, TRUE)),
                     None, None)
         ELSE Return("render", mode, "IndexError", None, None, None)
    ELSE Return("render", mode, "returned", None, None, None)

\* env.reset()
ViewReset ==
    /\ LET self == ResetState(envs[1])
       IN /\ envs' = [envs EXCEPT ![1] = self]
          /\ ret' = Return("reset", None, "returned", GetObservation(self), None, None)
    /\ UNCHANGED <<episode, trace, regVars, userVars>>

\* env.step(action)
ViewStep(action) ==
    /\ envs[1].agent_position[1] < envs[1].cfg.screen_width + OverRun
    /\ LET r == Step(envs[1], action)
       IN /\ envs' = [envs EXCEPT ![1] = r.self]
          /\ ret' = [r.return EXCEPT !.result = "returned"]
    /\ UNCHANGED <<episode, trace, regVars, userVars>>

\* env.get_observation(vision)
ViewGetObservation(arg) ==
    /\ LET vision == Vision(envs[1], arg)
       IN IF ObservationOK(envs[1], vision)
          THEN /\ envs' = [envs EXCEPT ![1] = Observed(envs[1], vision)]
               /\ ret' = Return("get_observation", arg, "returned",
                                Observation(envs[1], vision), None, None)
          ELSE /\ envs' = envs
               /\ ret' = Return("get_observation", arg, "IndexError", None, None, None)
    /\ UNCHANGED <<episode, trace, regVars, userVars>>

\* env.render(mode)
ViewRender(mode) ==
    /\ envs' = IF mode = "rgb_array" /\ ObservationOK(envs[1], TRUE)
               THEN [envs EXCEPT ![1] = Observed(envs[1], TRUE)]
               ELSE envs
    /\ ret' = Render(envs[1], mode)
    /\ UNCHANGED <<episode, trace, regVars, userVars>>

InitView ==
    /\ \E cfg \in ViewConfigs :
         LET self == ResetState(Attributes(cfg))
         IN /\ ConstructResult(cfg) = "instance"
            /\ envs = [i \in Instances |-> IF i = 1 THEN self ELSE NoEnv]
            /\ ret = Return("init", cfg, "instance", GetObservation(self), None, None)
    /\ episode = NewEpisode
    /\ trace = <<>>
    /\ RegIdle
    /\ UserIdle

NextView ==
    \/ ViewReset
    \/ \E action \in {0, 1} : ViewStep(action)
    \/ \E arg \in VisionArgs : ViewGetObservation(arg)
    \/ \E mode \in RenderModes : ViewRender(mode)

SpecView == InitView /\ [][NextView]_vars

(***************************************************************************)
(* WrapperFactoryList.wrap(env, configs), called by a user on a list of    *)
(* wrapper factories and a sequence of configurations of any length.       *)
(***************************************************************************)
\* the sequences over S of length at most n
SeqsUpTo(S, n) == UNION {[1..k -> S] : k \in 0..n}

\* the lists of wrapper factories a user builds, in any order
FactoryLists == SeqsUpTo(1..MaxWrappers, MaxWrappers)

\* the configs argument: configurations the factories sampled, any number
ConfigLists ==
    SeqsUpTo(UNION {WrapperFactorySample(f) : f \in 1..MaxWrappers}, MaxWrappers)

\* (mutant) the factories are applied from the last to the first
RECURSIVE WrapperFactoryListWrap_Reversed(_, _, _, _)
WrapperFactoryListWrap_Reversed(self, configs, i, st) ==
    IF i > Min(Len(self), Len(configs)) THEN st
    ELSE LET wrapper == self[Len(self) - i + 1]
             config == configs[i]
         IN WrapperFactoryListWrap_Reversed(self, configs, i + 1,
                [env |-> Wrap(wrapper, st.env, config),
                 calls |-> Append(st.calls, CallWrap(wrapper, st.env, config))])

\* the loop of WrapperFactoryList.wrap over zip(self, configs), from pair i on
RECURSIVE WrapperFactoryListWrap(_, _, _, _)
WrapperFactoryListWrap(self, configs, i, st) ==
    IF i > Min(Len(self), Len(configs)) THEN st
    ELSE LET wrapper == self[i]
             config == configs[i]
         IN WrapperFactoryListWrap(self, configs, i + 1,
                [env |-> Wrap(wrapper, st.env, config),
                 calls |-> Append(st.calls, CallWrap(wrapper, st.env, config))])

\* wrapper_factories.wrap(env, configs), env a base environment of the user's
ListWrap(id, env_config, configs) ==
    /\ ConstructionOK(EnvFactoryMake(env_config))
    /\ LET st == WrapperFactoryListWrap(wrapper_factories, configs, 1,
                     [env |-> NewEnv(id, env_config), calls |-> NoCall])
       IN last' = Call("wrap", NewEnv(id, env_config), "env", st.env, st.calls, configs)
    /\ UNCHANGED <<wrapper_factories, _all_configs, _env_to_config, heap, nSampled,
                   envVars, userVars>>

InitList ==
    /\ wrapper_factories \in FactoryLists
    /\ _all_configs = <<>>
    /\ _env_to_config = [k \in {} |-> 0]
    /\ heap = [i \in Ids |-> Free]
    /\ last = Call("init", None, None, None, NoCall, None)
    /\ nSampled = 0
    /\ EnvIdle
    /\ UserIdle

NextList ==
    \E id \in Ids, env_config \in EnvFactorySample, configs \in ConfigLists :
        ListWrap(id, env_config, configs)

SpecList == InitList /\ [][NextList]_vars

(***************************************************************************)
(* TaskConfig: a dict whose fields are also read and written as attributes *)
(***************************************************************************)
\* the attributes class dict defines itself (TaskConfig derives from dict)
DictAttributes ==
    {"clear", "copy", "fromkeys", "get", "items", "keys", "pop", "popitem",
     "setdefault", "update", "values"}

\* the field names and values a caller uses
FieldNames == {"location", "weather", "keys"}
FieldValues == {"Town2", "Cloudy"}

\* what an access returns or raises
Got(kind, value) == [kind |-> kind, value |-> value]

\* TaskConfig.__setattr__(name, value): self[name] = value
SetAttr(self, name, value) == DictPut(self, name, value)

\* config[name] = value (dict.__setitem__)
SetItemOf(self, name, value) == DictPut(self, name, value)

\* config.name: Python looks the name up on the class first and calls
\* TaskConfig.__getattr__ only when that fails; __getattr__ returns self[name]
\* for a key of the mapping and raises AttributeError otherwise
GetAttr(self, name) ==
    IF name \in DictAttributes THEN Got("method", name)
    ELSE IF name \in DOMAIN self THEN Got("value", self[name])
    ELSE Got("AttributeError", name)

\* config[name] (dict.__getitem__)
GetItemOf(self, name) ==
    IF name \in DOMAIN self THEN Got("value", self[name])
    ELSE Got("KeyError", name)

\* the TaskConfig after an access: its mapping, the value each name was last
\* assigned (by either syntax), and the access with its result
Accessed(items, assigned, op, name, result) ==
    [items |-> items, assigned |-> assigned, op |-> op, name |-> name,
     result |-> result]

\* config.name = value
ConfigSetAttr(name, value) ==
    /\ task_config' = Accessed(SetAttr(task_config.items, name, value),
                               DictPut(task_config.assigned, name, value),
                               "setattr", name, Got("None", None))
    /\ UNCHANGED <<iterator, threads, regVars, envVars>>

\* config[name] = value
ConfigSetItem(name, value) ==
    /\ task_config' = Accessed(SetItemOf(task_config.items, name, value),
                               DictPut(task_config.assigned, name, value),
                               "setitem", name, Got("None", None))
    /\ UNCHANGED <<iterator, threads, regVars, envVars>>

\* config.name
ConfigGetAttr(name) ==
    /\ task_config' = Accessed(task_config.items, task_config.assigned,
                               "getattr", name, GetAttr(task_config.items, name))
    /\ UNCHANGED <<iterator, threads, regVars, envVars>>

\* config[name]
ConfigGetItem(name) ==
    /\ task_config' = Accessed(task_config.items, task_config.assigned,
                               "getitem", name, GetItemOf(task_config.items, name))
    /\ UNCHANGED <<iterator, threads, regVars, envVars>>

\* TaskConfig(**kwargs): no field, or one
InitConfig ==
    /\ \E kwargs \in {[k \in {} |-> 0]} \cup [{"location"} -> FieldValues] :
         task_config = Accessed(kwargs, kwargs, "init", None, Got("None", None))
    /\ iterator = NoIterator
    /\ threads = NoThreads
    /\ RegIdle
    /\ EnvIdle

NextConfig ==
    \/ \E name \in FieldNames, value \in FieldValues : ConfigSetAttr(name, value)
    \/ \E name \in FieldNames, value \in FieldValues : ConfigSetItem(name, value)
    \/ \E name \in FieldNames : ConfigGetAttr(name)
    \/ \E name \in FieldNames : ConfigGetItem(name)

SpecConfig == InitConfig /\ [][NextConfig]_vars

(***************************************************************************)
(* The registry iterated over: GymTaskset defines __getitem__ and __len__  *)
(* and no __iter__, so iter(taskset) asks for taskset[0], taskset[1], ...  *)
(* and ends at the first IndexError.                                       *)
(***************************************************************************)
\* the iterator iter(taskset) returns, len being a note of len(taskset) then
NewIterator ==
    [state |-> "running", index |-> 0, calls |-> 0, len |-> Len(_all_configs)]

\* the iterator after a next() that ended as result: on to the next index
\* after an environment, over after an IndexError
IteratorAfter(it, result) ==
    IF result = "env"
    THEN [it EXCEPT !.index = @ + 1, !.calls = @ + 1]
    ELSE IF result = "IndexError"
    THEN [it EXCEPT !.state = "exhausted", !.calls = @ + 1]
    ELSE [it EXCEPT !.state = "raised", !.calls = @ + 1]

\* iter(taskset), the start of "for seen_task in iter(taskset)"
Iter ==
    /\ iterator.state = "none"
    /\ iterator' = NewIterator
    /\ last' = Call("iter", None, None, None, NoCall, None)
    /\ UNCHANGED <<task_config, threads, wrapper_factories, _all_configs, _env_to_config,
                   heap, nSampled, envVars>>

\* next(iterator): taskset[index]; an IndexError ends the loop
IterNext(id) ==
    /\ iterator.state = "running"
    /\ GetItem("next", iterator.index, iterator.index, id)
    /\ iterator' = IteratorAfter(iterator, last'.result)
    /\ UNCHANGED <<task_config, threads, wrapper_factories, _all_configs, _env_to_config,
                   nSampled, envVars>>

\* the identity a new object gets here: the lowest free one (which identity
\* a rebuilt environment has does not matter to an iteration)
Allocated(id) == \A j \in FreeIds : id <= j

\* the caller samples its tasks, then iterates over the registry once, and
\* indexes it and drops environments at any time
NextIter ==
    \/ \E env_config \in EnvFactorySample, id \in Ids :
         \E choice \in WrapperChoices :
            /\ iterator.state = "none"
            /\ Allocated(id)
            /\ Sample(env_config, choice, id)
    \/ \E index \in IndexArgs, id \in Ids : Allocated(id) /\ Index(index, id)
    \/ \E e \in Ids : Discard(e)
    \/ Iter
    \/ \E id \in Ids : Allocated(id) /\ IterNext(id)

SpecIter == Init /\ [][NextIter]_vars

(***************************************************************************)
(* sample() with factories that may raise: besides the construction        *)
(* assertion inside make, env_factory.sample() and each wrapper factory's  *)
(* sample(env) and wrap(env, config) may fail.                             *)
(***************************************************************************)
\* the factory calls of one sample() that may raise: env_factory.sample(), or
\* sample / wrap of the wrapper factory at position i of the list
FailPoints ==
    {[at |-> 0, method |-> "sample"]}
        \cup [at : 1..Len(wrapper_factories), method : {"sample", "wrap"}]

\* the position of the raising call in the sequence of factory calls
FailIndex(point) ==
    IF point.at = 0 THEN 1
    ELSE IF point.method = "sample" THEN 2 * point.at + 1
    ELSE 2 * point.at + 2

\* the factory calls sample() makes up to and including the one that raises
CallsUntil(env_config, choice, id, point) ==
    LET st == SampleWrappers(choice, 1,
                  [env |-> NewEnv(id, env_config),
                   configs |-> SampleConfigs(env_config),
                   calls |-> <<CallSample("env_factory"), CallMake(env_config)>>])
    IN SubSeq(st.calls, 1, FailIndex(point))

\* (mutant) the tuple and the identity are recorded right after make, before
\* the wrapper loop
SampleRaises_RecordsFirst(env_config, choice, id, point) ==
    /\ Len(_all_configs) < MaxHistory
    /\ id \in FreeIds
    /\ ConstructionOK(EnvFactoryMake(env_config))
    /\ last' = Call("sample", None, "raised", None,
                    CallsUntil(env_config, choice, id, point), None)
    /\ IF point.at = 0
       THEN UNCHANGED <<_all_configs, _env_to_config>>
       ELSE /\ _env_to_config' = DictPut(_env_to_config, id, SampleIndex)
            /\ _all_configs' = Record(SampleConfigs(env_config))
    /\ UNCHANGED <<wrapper_factories, heap, nSampled, envVars, userVars>>

\* GymTaskset.sample() in which the factory call at point raises: the
\* exception leaves sample() at that call, before the bookkeeping; the
\* environment under construction is dropped
SampleRaises(env_config, choice, id, point) ==
    /\ Len(_all_configs) < MaxHistory
    /\ id \in FreeIds
    /\ ConstructionOK(EnvFactoryMake(env_config))
    /\ last' = Call("sample", None, "raised", None,
                    CallsUntil(env_config, choice, id, point), None)
    /\ UNCHANGED <<wrapper_factories, _all_configs, _env_to_config, heap, nSampled,
                   envVars, userVars>>

NextSample ==
    \/ \E env_config \in EnvFactorySample, id \in Ids :
         \E choice \in WrapperChoices :
            Sample(env_config, choice, id)
    \/ \E env_config \in EnvFactorySample, id \in Ids :
         \E choice \in WrapperChoices, point \in FailPoints :
            SampleRaises(env_config, choice, id, point)
    \/ \E e \in Ids : Discard(e)

SpecSample == Init /\ [][NextSample]_vars

(***************************************************************************)
(* Two threads calling sample() without a lock.  The construction of the   *)
(* environment works on locals; the bookkeeping reads and writes the       *)
(* registry in three steps: len(self._all_configs) is evaluated, the       *)
(* identity is stored under it, the tuple is appended.  A thread switch    *)
(* may fall between any two of them.                                       *)
(***************************************************************************)
\* the calls of sample() that are under way
Running == {t \in Threads : threads.frame[t].pc # "idle"}
\* the threads that have evaluated len(self._all_configs) and not yet appended
InBookkeeping == {t \in Threads : threads.frame[t].pc \in {"read", "stored"}}
\* the environments the caller holds: not free, not a local of a running call
Held == {i \in Ids : heap[i].origin \notin {"free", "local"}}

\* sample() up to the bookkeeping: the factories are called and the wrapped
\* environment is built, held by the locals env and configs of thread t
ThreadBuild(t, env_config, choice, id) ==
    /\ threads.frame[t].pc = "idle"
    /\ Len(_all_configs) + Cardinality(Running) < MaxHistory
    /\ id \in FreeIds
    /\ IF ~ConstructionOK(EnvFactoryMake(env_config))
       THEN /\ last' = Call("sample", None, "AssertionError", None,
                            <<CallSample("env_factory"), CallMake(env_config)>>, None)
            /\ UNCHANGED <<heap, threads>>
       ELSE LET st == SampleWrappers(choice, 1,
                         [env |-> NewEnv(id, env_config),
                          configs |-> SampleConfigs(env_config),
                          calls |-> <<CallSample("env_factory"), CallMake(env_config)>>])
            IN /\ heap' = [heap EXCEPT ![id] = Obj("local", st.env, st.configs)]
               /\ threads' = [frame |-> [threads.frame EXCEPT ![t] =
                                            [pc |-> "built", env |-> st.env,
                                             configs |-> st.configs, calls |-> st.calls]],
                              raced |-> threads.raced \ {id}]
               /\ UNCHANGED last
    /\ UNCHANGED <<wrapper_factories, _all_configs, _env_to_config, nSampled,
                   task_config, iterator, envVars>>

\* (mutant) the index is the constant 0, not the length of the history
ThreadReadLen_Zero(t) ==
    /\ threads.frame[t].pc = "built"
    /\ threads' = [frame |-> [threads.frame EXCEPT ![t] =
                                 [pc |-> "read", env |-> @.env, configs |-> @.configs,
                                  calls |-> @.calls, index |-> 0]],
                   raced |-> IF InBookkeeping = {} THEN threads.raced
                             ELSE threads.raced \cup {threads.frame[t].env.unwrapped}
                                    \cup {threads.frame[u].env.unwrapped : u \in InBookkeeping}]
    /\ UNCHANGED <<regVars, task_config, iterator, envVars>>

\* the right-hand side of the identity map's assignment: thread t evaluates
\* len(self._all_configs).  raced collects the environments whose
\* bookkeeping ran while another call's bookkeeping was under way.
ThreadReadLen(t) ==
    /\ threads.frame[t].pc = "built"
    /\ threads' = [frame |-> [threads.frame EXCEPT ![t] =
                                 [pc |-> "read", env |-> @.env, configs |-> @.configs,
                                  calls |-> @.calls, index |-> SampleIndex]],
                   raced |-> IF InBookkeeping = {} THEN threads.raced
                             ELSE threads.raced \cup {threads.frame[t].env.unwrapped}
                                    \cup {threads.frame[u].env.unwrapped : u \in InBookkeeping}]
    /\ UNCHANGED <<regVars, task_config, iterator, envVars>>

\* self._env_to_config[id(env.unwrapped)] = <the length evaluated before>
ThreadStore(t) ==
    /\ threads.frame[t].pc = "read"
    /\ _env_to_config' = DictPut(_env_to_config, threads.frame[t].env.unwrapped,
                                 threads.frame[t].index)
    /\ threads' = [threads EXCEPT !.frame[t].pc = "stored"]
    /\ UNCHANGED <<wrapper_factories, _all_configs, heap, last, nSampled,
                   task_config, iterator, envVars>>

\* self._all_configs.append(configs); return env
ThreadAppend(t) ==
    /\ threads.frame[t].pc = "stored"
    /\ LET frame == threads.frame[t]
       IN /\ _all_configs' = Record(frame.configs)
          /\ heap' = [heap EXCEPT ![frame.env.unwrapped] =
                         Obj("sample", frame.env, frame.configs)]
          /\ last' = Call("sample", None, "env", frame.env, frame.calls, frame.configs)
    /\ nSampled' = nSampled + 1
    /\ threads' = [threads EXCEPT !.frame[t] = NoFrame]
    /\ UNCHANGED <<wrapper_factories, _env_to_config, task_config, iterator, envVars>>

NextConc ==
    \/ \E t \in Threads, env_config \in EnvFactorySample, id \in Ids :
         \E choice \in WrapperChoices :
            ThreadBuild(t, env_config, choice, id)
    \/ \E t \in Threads : ThreadReadLen(t)
    \/ \E t \in Threads : ThreadStore(t)
    \/ \E t \in Threads : ThreadAppend(t)
    \/ \E e \in Held, id \in Ids : MakeLike(e, id)
    \/ \E e \in Held : Discard(e)

SpecConc == Init /\ [][NextConc]_vars

(***************************************************************************)
(* Properties of the registry                                              *)
(***************************************************************************)
\* the configuration tuple an environment was built from, read off the object
BuiltFrom(env) ==
    <<env.config>> \o [i \in 1..Len(env.wrappers) |-> env.wrappers[i].config]
\* the factories that wrapped it, innermost first
WrappedBy(env) == [i \in 1..Len(env.wrappers) |-> env.wrappers[i].factory]

\* the environment that wrap calls 1..j leave, for base identity id and tuple configs
EnvAfter(id, configs, j) ==
    [unwrapped |-> id, config |-> configs[1],
     wrappers |-> [m \in 1..j |-> [factory |-> wrapper_factories[m],
                                   config |-> configs[m + 1]]]]

MakeLikeOfSampled ==
    /\ last.op = "make_like"
    /\ heap[last.arg].origin = "sample"

\* C1: make_like(e), e returned by sample() and still held, returns a new
\* environment (another object than e) built by make and the wrapper factories'
\* wrap, in list order, from the tuple recorded when e was sampled.
C1_MakeLikeRebuildsRecordedTuple ==
    MakeLikeOfSampled =>
        /\ last.result = "env"
        /\ last.env.unwrapped # last.arg
        /\ heap[last.env.unwrapped].env = last.env
        /\ BuiltFrom(last.env) = heap[last.arg].configs
        /\ WrappedBy(last.env) = wrapper_factories

\* C1 witness: make_like of the first of two sampled tasks with different
\* tuples, after the second was sampled
C1_Witness ==
    /\ MakeLikeOfSampled
    /\ last.result = "env"
    /\ Len(_all_configs) = 2
    /\ _all_configs[1] # _all_configs[2]
    /\ heap[last.arg].configs = _all_configs[1]

\* C2: make_like(env) of an environment that sample() did not return raises
\* the not-found error (ValueError), whatever identities were reused.
C2_MakeLikeOfUnknownRaises ==
    (last.op = "make_like" /\ heap[last.arg].origin # "sample")
        => last.result = "ValueError"

\* C3: the history changes only by sample() appending one tuple at its end;
\* its length is the number of completed sample() calls; recorded tuples keep
\* index and content; make_like and indexed access change neither the history
\* nor the identity map.
C3_HistoryAppendOnly ==
    [][/\ Len(_all_configs) = nSampled
       /\ Len(_all_configs') = nSampled'
       /\ Len(_all_configs') \in {Len(_all_configs), Len(_all_configs) + 1}
       /\ \A i \in 1..Len(_all_configs) : _all_configs'[i] = _all_configs[i]
       /\ _all_configs' # _all_configs =>
             /\ last'.op = "sample"
             /\ last'.result = "env"
             /\ _all_configs' = Append(_all_configs, last'.configs)
       /\ (last'.op = "sample" /\ last'.result = "env") =>
             Len(_all_configs') = Len(_all_configs) + 1
       /\ last'.op \in {"make_like", "getitem"} =>
             UNCHANGED <<_all_configs, _env_to_config>>
      ]_vars

\* C3 witness: a make_like that returned an environment, two tasks recorded
C3_Witness ==
    /\ last.op = "make_like"
    /\ last.result = "env"
    /\ Len(_all_configs) = 2
    /\ nSampled = 2

\* C9: sample() calls env_factory.sample(), env_factory.make(config), then per
\* wrapper factory in list order sample(env) and wrap(env, config), each once,
\* threading the env; make_like and indexed access call no sample() and call
\* make and wrap in the same factory order.
C9_FactoryCallOrder ==
    LET k == Len(wrapper_factories)
        id == last.env.unwrapped
    IN /\ (last.op = "sample" /\ last.result = "env") =>
            /\ Len(last.calls) = 2 + 2 * k
            /\ last.calls[1] = CallSample("env_factory")
            /\ last.calls[2] = CallMake(last.configs[1])
            /\ \A i \in 1..k :
                 /\ last.calls[2 * i + 1] =
                        CallSampleEnv(wrapper_factories[i],
                                      EnvAfter(id, last.configs, i - 1))
                 /\ last.calls[2 * i + 2] =
                        CallWrap(wrapper_factories[i],
                                 EnvAfter(id, last.configs, i - 1),
                                 last.configs[i + 1])
            /\ last.env = EnvAfter(id, last.configs, k)
       /\ last.op \in {"make_like", "getitem"} =>
            \A n \in 1..Len(last.calls) : last.calls[n].method # "sample"
       /\ (last.op \in {"make_like", "getitem"} /\ last.result = "env") =>
            /\ Len(last.calls) = 1 + k
            /\ last.calls[1] = CallMake(last.configs[1])
            /\ \A i \in 1..k :
                 last.calls[i + 1] =
                     CallWrap(wrapper_factories[i],
                              EnvAfter(id, last.configs, i - 1),
                              last.configs[i + 1])
            /\ last.env = EnvAfter(id, last.configs, k)

\* C9 witness: a replay through two wrapper factories
C9_Witness ==
    /\ last.op = "make_like"
    /\ last.result = "env"
    /\ Len(wrapper_factories) = 2
    /\ Len(last.calls) = 3

(***************************************************************************)
(* Properties of the simulation                                            *)
(***************************************************************************)
\* the sentences' conditions, on the instance as a step() call leaves it: the
\* agent has moved and the step counter already counts this step
StepsBefore == envs[1]._steps - 1
AgentX == envs[1].agent_position[1]
AgentY == envs[1].agent_position[2]
BoxesOverlap ==
    LET c == envs[1].cfg
    IN /\ c.obstacle_position + c.obstacle_size[1] > AgentX
       /\ c.obstacle_position < AgentX + c.agent_size[1]
       /\ c.floor_height + c.obstacle_size[2] > AgentY
       /\ c.floor_height < AgentY + c.agent_size[2]
PastRightEdge == envs[1].cfg.screen_width < AgentX + envs[1].cfg.agent_size[1]
TimedOut == StepsBefore > envs[1].cfg.max_episode_steps
\* the step just returned is the one that ended the driver's episode
FirstDoneStep == ret.call = "step" /\ episode.over /\ episode.steps = envs[1]._steps

\* C5: for every configuration that passes the construction check, the episode
\* driven by get_optimal_action() ends with done=True by exit, and none of its
\* steps is a collision.
C5_OptimalPolicyExits ==
    (envs[1].alive /\ episode.optimal) =>
        /\ ~episode.collided
        /\ FirstDoneStep => PastRightEdge

\* the assertion failure of the claim: unsolvable widths or several envs
AssertFails(cfg) ==
    \/ cfg.jumping_height + 1 < cfg.agent_size[1] + cfg.obstacle_size[1]
    \/ cfg.num_envs # 1

C7_DoneIffTimeoutCollisionExit ==
    ret.call = "step" => (ret.done <=> (TimedOut \/ BoxesOverlap \/ PastRightEdge))

\* C7 witness: the agent has landed right behind the obstacle, the two boxes
\* touching on an edge, and the step is not done
C7_Witness ==
    /\ ret.call = "step"
    /\ ~ret.done
    /\ AgentX = envs[1].cfg.obstacle_position + envs[1].cfg.obstacle_size[1]
    /\ AgentY = envs[1].cfg.floor_height

\* C8: the reward of a step is -1 on a collision (also when the step is an exit
\* or a timeout), else agent_speed + 1 on an exit, else agent_speed.
C8_Reward ==
    ret.call = "step" =>
        ret.reward = IF BoxesOverlap THEN 0 - 1
                     ELSE IF PastRightEdge THEN envs[1].cfg.agent_speed + 1
                     ELSE envs[1].cfg.agent_speed

\* C8 witness: a step that is a collision and an exit at once
C8_Witness ==
    /\ ret.call = "step"
    /\ BoxesOverlap
    /\ PastRightEdge
    /\ ret.reward = 0 - 1

\* C10: in the end-to-end scenario, driving with get_optimal_action() ends: the
\* first done=True is an exit step, no step is a collision, and the rewards sum
\* to (steps before the exit step) * agent_speed + (agent_speed + 1).
C10_ScenarioOptimalRun ==
    (envs[1].alive /\ envs[1].cfg = ScenarioConfig /\ episode.optimal) =>
        LET c == envs[1].cfg
        IN /\ ~episode.collided
           /\ FirstDoneStep => (ret.done /\ PastRightEdge /\ ~BoxesOverlap)
           /\ episode.over =>
                 episode.total = (episode.steps - 1) * c.agent_speed + (c.agent_speed + 1)
           /\ envs[1]._steps >= (c.screen_width - c.agent_size[1]) \div c.agent_speed + 1
                 => episode.over

\* C10 witness: the exit step of the scenario's optimal run
C10_Witness ==
    /\ envs[1].alive
    /\ envs[1].cfg = ScenarioConfig
    /\ episode.optimal
    /\ FirstDoneStep
    /\ PastRightEdge
    /\ episode.total = 61

\* C4: two instances built from equal configurations and driven from reset()
\* with the same action sequence return the same observations, rewards and done
\* flags and are in the same state (position, airborne flag and direction, step
\* counter) after every step, whatever either did before its reset().
C4_SameActionsSameTrajectory ==
    (envs[1].cfg = envs[2].cfg /\ trace[1].actions = trace[2].actions) =>
        /\ trace[1].returns = trace[2].returns
        /\ envs[1].agent_position = envs[2].agent_position
        /\ envs[1].jumping = envs[2].jumping
        /\ envs[1]._steps = envs[2]._steps
        /\ envs[1] = envs[2]

\* C4 witness: a used and reset instance and a fresh one, after the same
\* MaxTrace actions with a jump among them, the last step done
C4_Witness ==
    /\ trace[1].reused
    /\ ~trace[2].reused
    /\ trace[1].actions = trace[2].actions
    /\ Len(trace[1].actions) = MaxTrace
    /\ \E n \in 1..MaxTrace : trace[1].actions[n] = 1
    /\ trace[1].returns[MaxTrace + 1][3]

\* C11: reward_range[1] = screen_width + 2 - agent width is the largest sum of
\* rewards an episode can collect: from reset() up to and including the first
\* step that returns done=True, the rewards never sum to more than it.
C11_RewardRangeBoundsEpisode ==
    (envs[1].alive /\ episode.over) => episode.total <= envs[1].reward_range[2]

\* C12: one of the first max_episode_steps calls of step() after reset() returns
\* done=True.
C12_DoneWithinHorizon ==
    (envs[1].alive /\ ret.call = "step"
        /\ envs[1]._steps >= envs[1].cfg.max_episode_steps) => episode.over

\* the length of a jump in steps, the step that begins it included
JumpLength(c) == 2 * (c.jumping_height \div c.agent_speed + 1)

\* C19: a jump begins only on a step with action 1 taken on the floor; the
\* steps of a jump follow one course whatever their actions, up for half of
\* 2 * (jumping_height \div agent_speed + 1) steps and down for the other half,
\* landing exactly on floor_height on the last of them; always
\* floor_height <= y <= floor_height + jumping_height + agent_speed, and the
\* airborne flag is false exactly when y = floor_height.
C19_JumpTrajectory ==
    envs[1].alive =>
        LET c == envs[1].cfg
            n == JumpLength(c)
            m == episode.air
        IN /\ m \in 0..n
           /\ AgentY = c.floor_height
                  + c.agent_speed * (IF 2 * m <= n THEN m ELSE n - m)
           /\ envs[1].jumping[1] <=> (0 < m /\ m < n)
           /\ envs[1].jumping[1] <=> AgentY # c.floor_height
           /\ c.floor_height <= AgentY
           /\ AgentY <= c.floor_height + c.jumping_height + c.agent_speed
           /\ (ret.call = "step" /\ m = 1) => ret.arg = 1

\* C19 witness: the landing step of a jump of four steps whose apex is above
\* floor_height + jumping_height (jumping_height 3 at speed 2), the action of
\* that step being another jump request
C19_Witness ==
    /\ envs[1].alive
    /\ ret.call = "step"
    /\ ret.arg = 1
    /\ envs[1].cfg.jumping_height = 3
    /\ envs[1].cfg.agent_speed = 2
    /\ episode.air = 4
    /\ ~envs[1].jumping[1]
    /\ AgentY = envs[1].cfg.floor_height

\* the looked-at instance's configuration and mode
ViewCfg == envs[1].cfg
FeatureMode == ~envs[1].cfg.vision_observations

\* C13: render(mode) with any mode other than 'rgb_array' raises
\* NotImplementedError; it never returns (None or anything else).
C13_RenderOtherModesRaise ==
    (ret.call = "render" /\ ret.arg # "rgb_array") =>
        ret.result = "NotImplementedError"

\* C17: in feature mode the observation reset() and every step() return is the
\* agent's current x and y followed by agent width, agent height, agent speed,
\* jump height, floor height, obstacle x, obstacle width and obstacle height,
\* each over max(screen_height, screen_width): entries 2 to 9 never change.
C17_FeatureObservation ==
    (FeatureMode /\ ret.call \in {"init", "reset", "step"}) =>
        /\ ret.observation.num =
              <<AgentX, AgentY,
                ViewCfg.agent_size[1], ViewCfg.agent_size[2], ViewCfg.agent_speed,
                ViewCfg.jumping_height, ViewCfg.floor_height,
                ViewCfg.obstacle_position,
                ViewCfg.obstacle_size[1], ViewCfg.obstacle_size[2]>>
        /\ ret.observation.den =
              IF ViewCfg.screen_height >= ViewCfg.screen_width
              THEN ViewCfg.screen_height ELSE ViewCfg.screen_width

\* C17 witness: a step in mid-air on an oblong screen, in feature mode
C17_Witness ==
    /\ FeatureMode
    /\ ret.call = "step"
    /\ AgentX > 0
    /\ AgentY > ViewCfg.floor_height
    /\ ViewCfg.screen_height > ViewCfg.screen_width
    /\ ret.observation.num[1] = AgentX
    /\ ret.observation.den = ViewCfg.screen_height

\* C18: step(), get_observation() and render(), in either mode and with any
\* vision or mode argument, leave the cached background as it is, and reset()
\* caches a background equal to the one cached before.
C18_CacheOnlyReset ==
    [][envs'[1]._base_observation = envs[1]._base_observation]_vars

\* C18 witness: a raster rendering of a raster-mode instance whose agent has
\* moved on, the cache still the background without the agent
C18_Witness ==
    /\ ~FeatureMode
    /\ ret.call = "render"
    /\ ret.arg = "rgb_array"
    /\ ret.result = "returned"
    /\ AgentX > 0
    /\ envs[1]._base_observation = BaseObservation(envs[1], TRUE)
    /\ Painted(envs[1], TRUE) # envs[1]._base_observation

\* C20: whatever was stepped before, after reset() the instance is as it was
\* right after construction: agent at (0, floor_height), airborne flag false
\* with direction 0, step counter 0, termination flag false, the cached
\* background the initial one, all else untouched; reset() returns what the
\* constructor's reset() returned, and two instances last reset (or only
\* constructed) are equal, so what follows a reset() is what follows
\* construction and a second reset() changes nothing.
C20_ResetRestoresInitialState ==
    \A i \in Instances :
        trace[i].actions = <<>> =>
            /\ envs[i].agent_position = <<0, envs[i].cfg.floor_height>>
            /\ envs[i].jumping = <<FALSE, 0>>
            /\ envs[i]._steps = 0
            /\ envs[i].done = FALSE
            /\ envs[i].cfg = ret.arg
            /\ envs[i]._base_observation =
                  BaseObservation([cfg |-> ret.arg,
                                   agent_position |-> <<0, ret.arg.floor_height>>,
                                   max_screen_size |->
                                       Max(ret.arg.screen_height, ret.arg.screen_width)],
                                  ret.arg.vision_observations)
            /\ trace[i].returns = <<ret.observation>>
            /\ \A j \in Instances : trace[j].actions = <<>> => envs[j] = envs[i]

\* C20 witness: an instance stepped and then reset, beside one stepped into a
\* jump and not reset yet
C20_Witness ==
    /\ trace[1].reused
    /\ trace[1].actions = <<>>
    /\ envs[1]._steps = 0
    /\ ~trace[2].reused
    /\ envs[2].jumping[1]
    /\ envs[2]._steps = MaxTrace

\* env wrapped by hand: factory 1's wrap on env with configs[1], factory 2's
\* wrap on what that returned with configs[2], ... up to pair j
RECURSIVE Chained(_, _, _)
Chained(env, configs, j) ==
    IF j = 0 THEN env
    ELSE [Chained(env, configs, j - 1) EXCEPT
            !.wrappers = Append(@, [factory |-> wrapper_factories[j],
                                    config |-> configs[j]])]

\* C14: WrapperFactoryList.wrap(env, configs) returns what chaining the
\* factories' wrap by hand returns, in list order, call i with configs[i] and
\* the env call i-1 returned; with lists of different lengths only the first
\* min(len(factories), len(configs)) pairs are applied, and nothing is raised.
C14_ListWrapIsChaining ==
    last.op = "wrap" =>
        LET k == IF Len(wrapper_factories) <= Len(last.configs)
                 THEN Len(wrapper_factories) ELSE Len(last.configs)
        IN /\ last.result = "env"
           /\ last.env = Chained(last.arg, last.configs, k)
           /\ Len(last.calls) = k
           /\ \A i \in 1..k :
                 last.calls[i] =
                     [factory |-> wrapper_factories[i], method |-> "wrap",
                      env |-> Chained(last.arg, last.configs, i - 1),
                      config |-> last.configs[i]]

\* C14 witness: two different factories and one configuration
C14_Witness ==
    /\ last.op = "wrap"
    /\ Len(wrapper_factories) = 2
    /\ wrapper_factories[1] # wrapper_factories[2]
    /\ Len(last.configs) = 1
    /\ Len(last.env.wrappers) = 1
    /\ last.env.wrappers[1].factory = wrapper_factories[1]

\* C15: for every field name n, names of the mapping's own methods included,
\* once n was assigned v by config.n = v or by config[n] = v, both config.n and
\* config[n] return v.
C15_AttributeAccessIsSugar ==
    (task_config.op \in {"getattr", "getitem"}
        /\ task_config.name \in DOMAIN task_config.assigned) =>
        task_config.result = Got("value", task_config.assigned[task_config.name])

\* no sample() since iter(taskset): the history has the length it had then
NoSampleSinceIter == Len(_all_configs) = iterator.len

\* C16: an iteration over the registry with no sample() during it yields, for
\* i = 0, 1, ..., a newly built environment made from the i-th recorded tuple,
\* and ends after exactly len(taskset) of them, at its (len(taskset)+1)-th
\* request, whether or not the sampled environments are still held; taskset[i]
\* for 0 <= i < len(taskset) builds from tuple i in the same way.
C16_IterationYieldsHistory ==
    /\ (iterator.state # "none" /\ NoSampleSinceIter) =>
          /\ iterator.state \in {"running", "exhausted"}
          /\ iterator.index <= Len(_all_configs)
          /\ iterator.state = "running" => iterator.calls = iterator.index
          /\ iterator.state = "exhausted" =>
                /\ iterator.index = Len(_all_configs)
                /\ iterator.calls = Len(_all_configs) + 1
    /\ (last.op = "next" /\ NoSampleSinceIter) =>
          /\ last.result = "env" <=> last.arg < Len(_all_configs)
          /\ last.result = "IndexError" <=> last.arg = Len(_all_configs)
          /\ last.result = "env" => iterator.index = last.arg + 1
          /\ last.result = "IndexError" => iterator.state = "exhausted"
    /\ (last.op \in {"next", "getitem"}
            /\ 0 <= last.arg /\ last.arg < Len(_all_configs)) =>
          /\ last.result = "env"
          /\ BuiltFrom(last.env) = _all_configs[last.arg + 1]
          /\ WrappedBy(last.env) = wrapper_factories
          /\ heap[last.env.unwrapped].origin = "rebuilt"
          /\ heap[last.env.unwrapped].env = last.env

\* C16 witness: the iteration over two different recorded tasks has just
\* ended, and no sampled environment is held any more
C16_Witness ==
    /\ iterator.state = "exhausted"
    /\ last.op = "next"
    /\ last.result = "IndexError"
    /\ Len(_all_configs) = 2
    /\ _all_configs[1] # _all_configs[2]
    /\ iterator.index = 2
    /\ \A i \in Ids : heap[i].origin # "sample"

\* C25: once step() has returned done=True the instance's termination flag
\* (self.done, which reset() clears) is True, until the next reset().
C25_DoneFlagRecorded ==
    (envs[1].alive /\ episode.over) => envs[1].done

\* C26: in raster mode the observation reset() and step() return has shape
\* (1, screen_height, screen_width), the shape observation_space declares,
\* square screen or not.
C26_RasterShape ==
    (~FeatureMode /\ ret.call \in {"init", "reset", "step"}) =>
        /\ ret.observation.shape = <<1, ViewCfg.screen_height, ViewCfg.screen_width>>
        /\ ret.observation.shape = envs[1].observation_space

\* every environment sample() returned is still held: no identity filed in the
\* map has been given up
AllSampledAlive == Cardinality({i \in Ids : heap[i].origin = "sample"}) = nSampled

\* C24: while every sampled environment is alive, make_like of an environment
\* that make_like or indexed access returned raises the not-found error
\* (ValueError): rebuilt environments are not registered.
C24_RebuiltNotRegistered ==
    AllSampledAlive =>
        /\ \A i \in Ids :
              heap[i].origin = "rebuilt" =>
                  heap[i].env.unwrapped \notin DOMAIN _env_to_config
        /\ (last.op = "make_like" /\ heap[last.arg].origin = "rebuilt") =>
              last.result = "ValueError"

\* C24 witness: make_like of a rebuilt environment beside the sampled one
C24_Witness ==
    /\ last.op = "make_like"
    /\ heap[last.arg].origin = "rebuilt"
    /\ nSampled = 1
    /\ AllSampledAlive
    /\ last.result = "ValueError"
    /\ BuiltFrom(heap[last.arg].env) = _all_configs[1]

\* C21: the wrapper list has no factory when None was passed and the one
\* factory when a single factory was passed; every tuple of the
\* history has length 1 + k for k wrapper factories, element 0 a config of
\* env_factory.sample() and element i a config of wrapper factory i-1's
\* sample(); every index in the identity map is an index of the history.
C21_TupleShape ==
    LET k == Len(wrapper_factories)
    IN /\ last.op = "init" =>
             /\ last.arg.kind = "none" => k = 0
             /\ last.arg.kind = "single" =>
                   (k = 1 /\ wrapper_factories[1] = last.arg.value[1])
             /\ last.arg.kind = "list" => wrapper_factories = last.arg.value
       /\ \A n \in 1..Len(_all_configs) :
             /\ Len(_all_configs[n]) = 1 + k
             /\ _all_configs[n][1] \in EnvFactorySample
             /\ \A i \in 1..k :
                   _all_configs[n][i + 1] \in WrapperFactorySample(wrapper_factories[i])
       /\ \A id \in DOMAIN _env_to_config :
             /\ 0 <= _env_to_config[id]
             /\ _env_to_config[id] < Len(_all_configs)

\* C21 witness: two tuples of three configs each, their environments filed
C21_Witness ==
    /\ Len(wrapper_factories) = 2
    /\ Len(_all_configs) = 2
    /\ Len(_all_configs[2]) = 3
    /\ Cardinality(DOMAIN _env_to_config) = 2

\* C22: a sample() in which a factory call fails (env_factory.sample, the
\* construction assertion in env_factory.make, a wrapper factory's sample or
\* wrap) ends with that error and returns nothing, calls no factory after the
\* failing call and none twice (the calls made are a prefix of the calls of a
\* successful run, each made once), and leaves the registry as it was: no tuple
\* appended, the length unchanged, no identity filed.
C22_FailedSampleLeavesRegistry ==
    [][(last'.op = "sample" /\ last'.result # "env") =>
          /\ last'.result \in {"AssertionError", "raised"}
          /\ last'.env = None
          /\ _all_configs' = _all_configs
          /\ Len(_all_configs') = Len(_all_configs)
          /\ _env_to_config' = _env_to_config
          /\ nSampled' = nSampled
          /\ heap' = heap
          /\ Len(last'.calls) <= 2 + 2 * Len(wrapper_factories)
          /\ \A n \in 1..Len(last'.calls) :
                IF n <= 2
                THEN /\ last'.calls[n].factory = "env_factory"
                     /\ last'.calls[n].method = (IF n = 1 THEN "sample" ELSE "make")
                ELSE /\ last'.calls[n].factory = wrapper_factories[(n - 1) \div 2]
                     /\ last'.calls[n].method = (IF n % 2 = 1 THEN "sample" ELSE "wrap")
      ]_vars

\* C22 witness: with one task recorded, a sample() has failed in the second
\* wrapper factory's wrap, its sixth factory call
C22_Witness ==
    /\ last.op = "sample"
    /\ last.result = "raised"
    /\ Len(last.calls) = 6
    /\ last.calls[6].method = "wrap"
    /\ Len(_all_configs) = 1
    /\ nSampled = 1
    /\ Cardinality(DOMAIN _env_to_config) = 1

\* the held environment i was returned by sample() and its identity is filed
\* under an index that does not hold the tuple it was built from
Misfiled(i) ==
    /\ heap[i].origin = "sample"
    /\ i \in DOMAIN _env_to_config
    /\ \/ _env_to_config[i] >= Len(_all_configs)
       \/ _all_configs[_env_to_config[i] + 1] # heap[i].configs

\* C23: the bookkeeping of sample() is not atomic.  An environment returned by
\* sample() is filed under an index holding another call's tuple only if its
\* bookkeeping ran while that of a concurrent sample() was under way; when the
\* calls' bookkeeping does not overlap (serialized calls) every held sampled
\* environment is filed under its own tuple, and make_like of it rebuilds its
\* own task.
C23_MisfiledOnlyByRace ==
    /\ \A i \in Held : Misfiled(i) => i \in threads.raced
    /\ \A i \in Held : heap[i].origin = "sample" => i \in DOMAIN _env_to_config
    /\ (MakeLikeOfSampled /\ last.arg \in Held /\ last.arg \notin threads.raced) =>
          /\ last.result \in {"env", "AssertionError"}
          /\ last.configs = heap[last.arg].configs

\* C23 witness: two concurrent calls both stored their identity under the
\* same length before either appended; the caller holds an environment of one
\* of them, and make_like of it has rebuilt the other call's task
C23_Witness ==
    /\ Running = {}
    /\ MakeLikeOfSampled
    /\ last.arg \in Held
    /\ last.arg \in threads.raced
    /\ Misfiled(last.arg)
    /\ last.result = "env"
    /\ BuiltFrom(last.env) # BuiltFrom(heap[last.arg].env)
    /\ Len(_all_configs) = 2
    /\ \A id \in DOMAIN _env_to_config : _env_to_config[id] = 0
    /\ Cardinality(DOMAIN _env_to_config) = 2

====
